---- MODULE Spec2Model ----
(***************************************************************************)
(* State-machine model of the Moltbook stats monitor:                      *)
(*   scraper.py  MoltbookStatsScraper  (_init_csv, scrape, save, run)      *)
(*   monitor.py  MoltbookMonitor       (_signal_handler, run_single_scrape,*)
(*                                      start_monitoring)                  *)
(* The CSV file is a sequence of lines.  The timestamp and datetime        *)
(* columns of a row come from the wall clock and are not modelled; a row   *)
(* is the four counters save() converts with int(stats.get(k, 0)).         *)
(* Durations are counted in half seconds so that the truncation done by    *)
(* int(sleep_interval) is visible.                                         *)
(***************************************************************************)
EXTENDS Integers, Sequences, FiniteSets, TLC

VARIABLES
    file,             \* the CSV at OUTPUT_FILE: [exists, lines]
    file0,            \* what the path held before the program ran: "absent" | "empty"
    saved,            \* history: the rows of the save() calls that returned, in call order
    inits,            \* history: number of _init_csv() calls that returned
    calls,            \* history: number of store calls made by the store driver
    mpc,              \* position of the monitor (MoltbookMonitor)
    running,          \* MoltbookMonitor.running
    interval,         \* MoltbookMonitor.interval, seconds
    cycles,           \* number of loop bodies begun
    ticksLeft,        \* iterations left of for _ in range(int(sleep_interval))
    spc,              \* position inside MoltbookStatsScraper.scrape
    attempt,          \* the loop variable of scrape
    pw,               \* the async_playwright() context is entered
    browser,          \* "none" | "open" | "closed"
    stats,            \* the local stats of scrape / run
    outcomes,         \* history of this scrape call: outcome of each finished attempt
    delays,           \* history of this scrape call: seconds slept after each failed attempt that was followed by another
    found,            \* history of this scrape call: the first mapping of 4 values _extract_stats returned ({} before)
    stopPc,           \* history: mpc when the signal handler ran ("none" before)
    scrapesAfterStop, \* history: run_single_scrape() calls begun after the flag was cleared
    ticksAfterStop,   \* history: asyncio.sleep(1) ticks completed after the flag was cleared
    cycleRows,        \* history: rows appended to the CSV in the current cycle
    cycleRaised,      \* history: scraper.run() raised in the current cycle
    planned,          \* history: sleep_interval of the current cycle, half seconds
    ticksSlept,       \* history: ticks completed in the current inter-cycle sleep
    epc,              \* position inside _extract_stats: "s1" | "s2" | "s3" | "done"
    esel,             \* index of the next selector in the list of the current strategy
    estats,           \* the mapping _extract_stats returns ({} until a strategy succeeds)
    tried,            \* history: the selectors and strategies consulted, in order
    eresp,            \* history: what the page answered to the last one consulted
    evals,            \* history: the numeric values the last one consulted yielded
    eshort            \* history: how many of those consulted yielded fewer than 4 values

storeVars   == <<file, file0, saved, inits, calls>>
monitorVars == <<mpc, running, interval, cycles, ticksLeft>>
scrapeVars  == <<spc, attempt, pw, browser, stats, outcomes, delays, found>>
ghostVars   == <<stopPc, scrapesAfterStop, ticksAfterStop, cycleRows, cycleRaised,
                 planned, ticksSlept>>
extractVars == <<epc, esel, estats, tried, eresp, evals, eshort>>
vars == <<storeVars, monitorVars, scrapeVars, ghostVars, extractVars>>

----------------------------------------------------------------------------
(* Bounds of the model *)

\* loop bodies of start_monitoring explored
MaxCycles == 2
\* --interval values explored: 0 .. MaxIntervalMinutes
MaxIntervalMinutes == 1
\* longest elapsed time of one cycle explored, in half seconds
MaxDurationHalves == 1
\* store calls explored by the store driver
MaxStoreCalls == 5

(* Program constants *)

\* max_retries of scrape
max_retries == 3

----------------------------------------------------------------------------
(* The counter mappings *)

Keys == {"ai_agents", "submolts", "posts", "comments"}

\* the literal {"ai_agents": 0, "submolts": 0, "posts": 0, "comments": 0}
ZeroStats == [k \in Keys |-> 0]

\* stats = {} : what _extract_stats returns when no strategy found 4 values
EmptyStats == [k \in {} |-> 0]

\* a mapping _extract_stats builds from four values found on the page
PageStats == [k \in Keys |->
                 CASE k = "ai_agents" -> 1234
                   [] k = "submolts"  -> 56
                   [] k = "posts"     -> 789
                   [] k = "comments"  -> 10]

\* the return values of _extract_stats explored
ExtractResults == {EmptyStats, PageStats, ZeroStats}

\* len(stats)
Size(m) == Cardinality(DOMAIN m)

\* stats.get(k, 0)
Get(m, k) == IF k \in DOMAIN m THEN m[k] ELSE 0

----------------------------------------------------------------------------
(* The CSV store *)

\* the line writer.writeheader() writes
Header == [kind |-> "header", cells |-> [k \in Keys |-> 0]]

\* the line writer.writerow(row) writes: the four counters, each int(stats.get(k, 0))
Row(m) == [kind |-> "row", cells |-> [k \in Keys |-> Get(m, k)]]

AbsentFile == [exists |-> FALSE, lines |-> <<>>]
EmptyFile  == [exists |-> TRUE,  lines |-> <<>>]

\* _init_csv: writes a file holding only the header when the path does not exist
InitCsv(f) ==
    IF ~f.exists THEN [exists |-> TRUE, lines |-> <<Header>>] ELSE f

\* variant of WriteHeader: the size test forgotten
WriteHeaderNoSize(f) == ~f.exists

\* write_header = not file_exists or os.path.getsize(OUTPUT_FILE) == 0
WriteHeader(f) == ~f.exists \/ Len(f.lines) = 0

\* variant of SaveAppend: the file opened with "w" instead of "a"
SaveOverwrite(f, m) ==
    [exists |-> TRUE,
     lines  |-> (IF WriteHeader(f) THEN <<Header>> ELSE <<>>) \o <<Row(m)>>]

\* save that returns: open(..., "a"), the header if write_header, then the row
SaveAppend(f, m) ==
    [exists |-> TRUE,
     lines  |-> (IF WriteHeader(f) THEN <<Header>> ELSE f.lines) \o <<Row(m)>>]

\* save(stats): ioOk = FALSE is open() raising OSError, which leaves the file as it was
Save(f, m, ioOk) == IF ioOk THEN SaveAppend(f, m) ELSE f

IsHeader(l) == l.kind = "header"
DataRows(f) == SelectSeq(f.lines, LAMBDA l : ~IsHeader(l))
HeaderCount(f) == Len(SelectSeq(f.lines, IsHeader))

\* the number of data rows g holds more than f
Appended(f, g) == Len(DataRows(g)) - Len(DataRows(f))

----------------------------------------------------------------------------
(* Initial state: the process has started, nothing is constructed yet *)

\* the state before any constructor ran, the path holding one of paths
InitFrom(paths) ==
    /\ file0 \in paths
    /\ file = (IF file0 = "absent" THEN AbsentFile ELSE EmptyFile)
    /\ saved = <<>>
    /\ inits = 0
    /\ calls = 0
    /\ mpc = "construct"
    /\ running = TRUE
    /\ interval \in {60 * m : m \in 0..MaxIntervalMinutes}
    /\ cycles = 0
    /\ ticksLeft = 0
    /\ spc = "idle"
    /\ attempt = 0
    /\ pw = FALSE
    /\ browser = "none"
    /\ stats = EmptyStats
    /\ outcomes = <<>>
    /\ delays = <<>>
    /\ found = EmptyStats
    /\ stopPc = "none"
    /\ scrapesAfterStop = 0
    /\ ticksAfterStop = 0
    /\ cycleRows = 0
    /\ cycleRaised = FALSE
    /\ planned = 0
    /\ ticksSlept = 0
    /\ epc = "wait"
    /\ esel = 1
    /\ estats = EmptyStats
    /\ tried = <<>>
    /\ eresp = [kind |-> "none", texts |-> <<>>, numbers |-> <<>>]
    /\ evals = <<>>
    /\ eshort = 0

\* the monitor is started in a directory that holds no CSV yet
Init == InitFrom({"absent"})

\* the store on its own is also started on a zero-length file
StoreInit == InitFrom({"absent", "empty"})

----------------------------------------------------------------------------
(* MoltbookStatsScraper.scrape *)

\* variant of MoreAttempts: the range one too long
MoreAttemptsOff(a) == a + 1 <= max_retries

\* for attempt in range(max_retries): there is an iteration after attempt a
MoreAttempts(a) == a + 1 < max_retries

\* variant of Teardown: the browser launched without the context manager
TeardownLeak(b) == b

\* leaving "async with async_playwright() as p": the driver stops and takes a
\* launched browser down with it
Teardown(b) == IF b = "open" THEN "closed" ELSE b

\* variant of AfterExcept: the last attempt re-raises
AfterExceptReraise(a) == IF a = max_retries - 1 THEN "raised" ELSE "backoff"

\* except Exception: where the handler goes on attempt a
AfterExcept(a) == IF a = max_retries - 1 THEN "returned" ELSE "backoff"

\* asyncio.sleep(2 ** attempt)
BackoffSeconds(a) == 2 ^ a

InScrape(at) == mpc = "run" /\ spc = at

\* an exception raised inside the async with block: the context is left and
\* control goes to the except clause
RaiseInWith ==
    /\ pw' = FALSE
    /\ browser' = Teardown(browser)
    /\ spc' = "except"

\* one awaited call of the attempt that either returns (go to next) or raises
AwaitStep(at, next) ==
    /\ InScrape(at)
    /\ \E ok \in BOOLEAN :
          IF ok THEN spc' = next /\ UNCHANGED <<pw, browser>>
                ELSE RaiseInWith
    /\ UNCHANGED <<extractVars, storeVars, monitorVars, ghostVars, attempt, stats, outcomes, delays, found>>

\* async with async_playwright() as p: entering the context
EnterPlaywright ==
    /\ InScrape("attempt")
    /\ \E ok \in BOOLEAN :
          IF ok THEN pw' = TRUE /\ browser' = "none" /\ spc' = "launch"
                ELSE pw' = FALSE /\ browser' = "none" /\ spc' = "except"
    /\ UNCHANGED <<extractVars, storeVars, monitorVars, ghostVars, attempt, stats, outcomes, delays, found>>

\* the channel loop and the fallback launch: "none" is every launch raising
Launch ==
    /\ InScrape("launch")
    /\ \E got \in {"chrome", "msedge", "default", "none"} :
          IF got # "none" THEN browser' = "open" /\ spc' = "page" /\ pw' = pw
                          ELSE RaiseInWith
    /\ UNCHANGED <<extractVars, storeVars, monitorVars, ghostVars, attempt, stats, outcomes, delays, found>>

\* browser.new_page() and page.set_extra_http_headers(...)
NewPage == AwaitStep("page", "goto")

\* page.goto(BASE_URL, ...)
Navigate == AwaitStep("goto", "wait")

\* page.wait_for_load_state("networkidle") and page.wait_for_timeout(15000)
WaitLoad == AwaitStep("wait", "extract")

\* stats = await self._extract_stats(page)
Extract ==
    /\ InScrape("extract")
    /\ \/ \E r \in ExtractResults :
             /\ stats' = r
             /\ found' = (IF Size(found) < 4 /\ Size(r) >= 4 THEN r ELSE found)
             /\ spc' = "close"
             /\ UNCHANGED <<pw, browser>>
       \/ RaiseInWith /\ stats' = stats /\ found' = found
    /\ UNCHANGED <<extractVars, storeVars, monitorVars, ghostVars, attempt, outcomes, delays>>

\* await browser.close()
CloseBrowser ==
    /\ InScrape("close")
    /\ \E ok \in BOOLEAN :
          IF ok THEN browser' = "closed" /\ spc' = "check" /\ pw' = pw
                ELSE RaiseInWith
    /\ UNCHANGED <<extractVars, storeVars, monitorVars, ghostVars, attempt, stats, outcomes, delays, found>>

\* if stats and len(stats) >= 4: return stats; else: warning, and the loop goes on
\* (or ends, and scrape returns the zero mapping of its last line)
CheckStats ==
    /\ InScrape("check")
    /\ pw' = FALSE
    /\ browser' = Teardown(browser)
    /\ IF Size(stats) >= 4
       THEN /\ outcomes' = Append(outcomes, "ok")
            /\ spc' = "returned"
            /\ UNCHANGED <<attempt, stats, delays>>
       ELSE /\ outcomes' = Append(outcomes, "short")
            /\ IF MoreAttempts(attempt)
               THEN /\ attempt' = attempt + 1
                    /\ delays' = Append(delays, 0)
                    /\ spc' = "attempt"
                    /\ stats' = stats
               ELSE /\ stats' = ZeroStats
                    /\ spc' = "returned"
                    /\ UNCHANGED <<attempt, delays>>
    /\ UNCHANGED <<extractVars, storeVars, monitorVars, ghostVars, found>>

\* except Exception as e: the last attempt returns the zero mapping, the others
\* go on to the backoff sleep
Except ==
    /\ InScrape("except")
    /\ outcomes' = Append(outcomes, "exc")
    /\ spc' = AfterExcept(attempt)
    /\ stats' = (IF spc' = "returned" THEN ZeroStats ELSE stats)
    /\ UNCHANGED <<extractVars, storeVars, monitorVars, ghostVars, attempt, pw, browser, delays, found>>

\* await asyncio.sleep(2 ** attempt), then the next iteration of the loop
\* (or, the loop being over, the zero mapping of the last line)
Backoff ==
    /\ InScrape("backoff")
    /\ delays' = Append(delays, BackoffSeconds(attempt))
    /\ IF MoreAttempts(attempt)
       THEN attempt' = attempt + 1 /\ spc' = "attempt" /\ stats' = stats
       ELSE attempt' = attempt /\ spc' = "returned" /\ stats' = ZeroStats
    /\ UNCHANGED <<extractVars, storeVars, monitorVars, ghostVars, pw, browser, outcomes, found>>

ScrapeNext ==
    \/ EnterPlaywright
    \/ Launch
    \/ NewPage
    \/ Navigate
    \/ WaitLoad
    \/ Extract
    \/ CloseBrowser
    \/ CheckStats
    \/ Except
    \/ Backoff

----------------------------------------------------------------------------
(* MoltbookMonitor and MoltbookStatsScraper.run *)

Max(a, b) == IF a >= b THEN a ELSE b

\* sleep_interval = max(1, self.interval - duration), in half seconds
SleepInterval(iv, d) == Max(2, 2 * iv - d)

\* variant of Ticks: round() in place of int()
TicksRounded(halves) == (halves + 1) \div 2

\* range(int(sleep_interval)): int() drops the fraction
Ticks(halves) == halves \div 2

\* MoltbookMonitor.__init__: constructs the scraper (makedirs, _init_csv) and
\* registers the signal handlers
Construct ==
    /\ mpc = "construct"
    /\ file' = InitCsv(file)
    /\ inits' = inits + 1
    /\ mpc' = "while"
    /\ UNCHANGED <<extractVars, file0, saved, calls, running, interval, cycles, ticksLeft,
                   scrapeVars, ghostVars>>

\* _signal_handler, run between any two steps of the main thread
SignalHandler ==
    /\ mpc \notin {"construct", "stopped", "crashed"}
    /\ running' = FALSE
    /\ stopPc' = (IF running THEN mpc ELSE stopPc)
    /\ UNCHANGED <<extractVars, storeVars, mpc, interval, cycles, ticksLeft, scrapeVars,
                   scrapesAfterStop, ticksAfterStop, cycleRows, cycleRaised,
                   planned, ticksSlept>>

\* variants of LoopTest: while True, and while not self.running
LoopTestAlways(r) == TRUE
LoopTestNegated(r) == ~r

\* while self.running: the loop test, on the flag r
LoopTest(r) == r

\* variant of BreakCheck: the for loop without its flag test
BreakNever(r) == FALSE

\* if not self.running: break, on the flag r
BreakCheck(r) == ~r

\* while self.running: the test passes and a loop body begins
LoopEnter ==
    /\ mpc = "while"
    /\ LoopTest(running)
    /\ cycles < MaxCycles
    /\ mpc' = "start"
    /\ cycles' = cycles + 1
    /\ cycleRows' = 0
    /\ cycleRaised' = FALSE
    /\ planned' = 0
    /\ ticksSlept' = 0
    /\ UNCHANGED <<extractVars, storeVars, running, interval, ticksLeft, scrapeVars,
                   stopPc, scrapesAfterStop, ticksAfterStop>>

\* while self.running: the test fails; "Monitoring stopped"
LoopExit ==
    /\ mpc = "while"
    /\ ~LoopTest(running)
    /\ mpc' = "stopped"
    /\ UNCHANGED <<extractVars, storeVars, running, interval, cycles, ticksLeft, scrapeVars,
                   ghostVars>>

\* start_time, the log line, then run_single_scrape() -> scraper.run() -> scrape()
BeginScrape ==
    /\ mpc = "start"
    /\ mpc' = "run"
    /\ spc' = "attempt"
    /\ attempt' = 0
    /\ outcomes' = <<>>
    /\ delays' = <<>>
    /\ found' = EmptyStats
    /\ stats' = EmptyStats
    /\ scrapesAfterStop' = scrapesAfterStop + (IF running THEN 0 ELSE 1)
    /\ UNCHANGED <<extractVars, storeVars, running, interval, cycles, ticksLeft, pw, browser,
                   stopPc, ticksAfterStop, cycleRows, cycleRaised, planned,
                   ticksSlept>>

\* run(): scrape() is over.  It returned a mapping (never None), which
\* save(stats) appends; a save that raises, or scrape raising, goes to the
\* except clause of run_single_scrape
RunSave ==
    /\ mpc = "run"
    /\ spc \in {"returned", "raised"}
    /\ \E ioOk \in BOOLEAN :
          IF spc = "returned" /\ ioOk
          THEN /\ file' = Save(file, stats, TRUE)
               /\ saved' = Append(saved, Row(stats))
               /\ cycleRows' = cycleRows + Appended(file, file')
               /\ mpc' = "print"
               /\ cycleRaised' = cycleRaised
          ELSE /\ file' = (IF spc = "returned" THEN Save(file, stats, FALSE) ELSE file)
               /\ saved' = saved
               /\ cycleRows' = cycleRows
               /\ mpc' = "handler"
               /\ cycleRaised' = TRUE
    /\ UNCHANGED <<extractVars, file0, inits, calls, running, interval, cycles, ticksLeft,
                   scrapeVars, stopPc, scrapesAfterStop, ticksAfterStop, planned,
                   ticksSlept>>

\* run(): print(...) and logger.info(...) after the save; print raises OSError
\* when standard output is gone
RunPrint ==
    /\ mpc = "print"
    /\ \E ok \in BOOLEAN :
          IF ok THEN mpc' = "post" /\ cycleRaised' = cycleRaised
                ELSE mpc' = "handler" /\ cycleRaised' = TRUE
    /\ UNCHANGED <<extractVars, storeVars, running, interval, cycles, ticksLeft, scrapeVars,
                   stopPc, scrapesAfterStop, ticksAfterStop, cycleRows, planned,
                   ticksSlept>>

\* default_stats of the except clause of run_single_scrape
DefaultStats == ZeroStats

\* variant of HandlerSave: the except clause only logs
HandlerSaveSkipped(f, ioOk) == f

\* self.scraper.save(default_stats) in the except clause of run_single_scrape
HandlerSave(f, ioOk) == Save(f, DefaultStats, ioOk)

\* run_single_scrape, except Exception: self.scraper.save(default_stats); a save
\* that raises here leaves start_monitoring
Handler ==
    /\ mpc = "handler"
    /\ \E ioOk \in BOOLEAN :
          /\ file' = HandlerSave(file, ioOk)
          /\ saved' = (IF ioOk THEN Append(saved, Row(DefaultStats)) ELSE saved)
          /\ cycleRows' = cycleRows + Appended(file, file')
          /\ mpc' = (IF ioOk THEN "post" ELSE "crashed")
    /\ UNCHANGED <<extractVars, file0, inits, calls, running, interval, cycles, ticksLeft,
                   scrapeVars, stopPc, scrapesAfterStop, ticksAfterStop,
                   cycleRaised, planned, ticksSlept>>

\* end_time, duration (d half seconds), sleep_interval, and the range of the for loop
Post ==
    /\ mpc = "post"
    /\ \E d \in 0..MaxDurationHalves :
          /\ planned' = SleepInterval(interval, d)
          /\ ticksLeft' = Ticks(planned')
    /\ ticksSlept' = 0
    /\ mpc' = "for"
    /\ spc' = "idle"
    /\ attempt' = 0
    /\ stats' = EmptyStats
    /\ outcomes' = <<>>
    /\ delays' = <<>>
    /\ found' = EmptyStats
    /\ UNCHANGED <<extractVars, storeVars, running, interval, cycles, pw, browser, stopPc,
                   scrapesAfterStop, ticksAfterStop, cycleRows, cycleRaised>>

\* the for loop head: the range is used up, or "if not self.running: break",
\* or the next asyncio.sleep(1) begins
ForHead ==
    /\ mpc = "for"
    /\ mpc' = (IF ticksLeft = 0 \/ BreakCheck(running) THEN "while" ELSE "tick")
    /\ UNCHANGED <<extractVars, storeVars, running, interval, cycles, ticksLeft, scrapeVars,
                   ghostVars>>

\* await asyncio.sleep(1) returns
Tick ==
    /\ mpc = "tick"
    /\ ticksLeft' = ticksLeft - 1
    /\ ticksSlept' = ticksSlept + 1
    /\ ticksAfterStop' = ticksAfterStop + (IF running THEN 0 ELSE 1)
    /\ mpc' = "for"
    /\ UNCHANGED <<extractVars, storeVars, running, interval, cycles, scrapeVars, stopPc,
                   scrapesAfterStop, cycleRows, cycleRaised, planned>>

MonitorNext ==
    \/ Construct
    \/ LoopEnter
    \/ LoopExit
    \/ BeginScrape
    \/ RunSave
    \/ RunPrint
    \/ Handler
    \/ Post
    \/ ForHead
    \/ Tick

\* every step of the program itself (the signal is the environment's)
ProgramNext == MonitorNext \/ ScrapeNext

Next == ProgramNext \/ SignalHandler

Spec == Init /\ [][Next]_vars

\* the main thread keeps executing: every await of the program is bounded by a
\* timeout or a sleep of known length, so an enabled program step is taken
FairSpec == Init /\ [][Next]_vars /\ WF_vars(ProgramNext)

----------------------------------------------------------------------------
(* The store on its own: constructions and saves in any order *)

StoreConstruct ==
    /\ calls < MaxStoreCalls
    /\ calls' = calls + 1
    /\ file' = InitCsv(file)
    /\ inits' = inits + 1
    /\ UNCHANGED <<extractVars, file0, saved, monitorVars, scrapeVars, ghostVars>>

StoreSave ==
    /\ calls < MaxStoreCalls
    /\ calls' = calls + 1
    /\ \E m \in ExtractResults, ioOk \in BOOLEAN :
          /\ file' = Save(file, m, ioOk)
          /\ saved' = (IF ioOk THEN Append(saved, Row(m)) ELSE saved)
    /\ UNCHANGED <<extractVars, file0, inits, monitorVars, scrapeVars, ghostVars>>

StoreNext == StoreConstruct \/ StoreSave

StoreSpec == StoreInit /\ [][StoreNext]_vars

----------------------------------------------------------------------------
(* MoltbookStatsScraper._extract_stats *)

\* Strategy 1
primary_selectors ==
    << "div.gap-6 div > div.text-2xl",
       "div.stat-card div.text-2xl",
       "div.stats-container div.text-2xl",
       "#stats-section div.text-2xl",
       ".stats-grid .stat-value",
       ".dashboard-stats .count",
       "div.gap-6 span",
       "div.gap-6 strong",
       ".stat-item .value",
       "[data-stat-value]",
       ".MuiBox-root div:textMatches('\\d+')" >>

\* Strategy 2
alt_selectors ==
    << "div.font-bold",
       ".count",
       ".number",
       "span.font-bold",
       ".stats-number",
       ".MuiTypography-body1",
       ".text-3xl",
       ".text-2xl" >>

\* A text is a sequence of characters.
Digits == {"0", "1", "2", "3", "4", "5", "6", "7", "8", "9"}

DigitVal(c) ==
    CASE c = "0" -> 0 [] c = "1" -> 1 [] c = "2" -> 2 [] c = "3" -> 3
      [] c = "4" -> 4 [] c = "5" -> 5 [] c = "6" -> 6 [] c = "7" -> 7
      [] c = "8" -> 8 [] c = "9" -> 9

\* int(s) of a string of digits
RECURSIVE ToInt(_)
ToInt(cs) ==
    IF cs = <<>> THEN 0
    ELSE 10 * ToInt(SubSeq(cs, 1, Len(cs) - 1)) + DigitVal(cs[Len(cs)])

\* s.isdigit()
IsDigit(cs) == Len(cs) > 0 /\ \A i \in 1..Len(cs) : cs[i] \in Digits

\* s.replace(c, '')
Without(cs, c) == SelectSeq(cs, LAMBDA x : x # c)

\* re.sub(r'[^\d,]', '', text.strip()), then .replace(',', '')
CleanedText(t) ==
    Without(SelectSeq(t, LAMBDA x : x \in Digits \/ x = ","), ",")

\* strategy 1, the values of the elements a selector matched: none unless
\* there are 4 elements, then the number of every element whose cleaned text
\* is a string of digits, in DOM order
RECURSIVE CleanedValues(_)
CleanedValues(texts) ==
    IF texts = <<>> THEN <<>>
    ELSE (IF IsDigit(CleanedText(Head(texts)))
          THEN <<ToInt(CleanedText(Head(texts)))>> ELSE <<>>)
         \o CleanedValues(Tail(texts))

PrimaryValues(texts) ==
    IF Len(texts) >= 4 THEN CleanedValues(texts) ELSE <<>>

\* the number of digits of t from position i on
RECURSIVE DigitRun(_, _)
DigitRun(t, i) ==
    IF i <= Len(t) /\ t[i] \in Digits THEN 1 + DigitRun(t, i + 1) ELSE 0

\* (?:,\d{3})* from position j: the position after the last group
RECURSIVE AfterGroups(_, _)
AfterGroups(t, j) ==
    IF j <= Len(t) /\ t[j] = "," /\ DigitRun(t, j + 1) >= 3
    THEN AfterGroups(t, j + 4) ELSE j

\* (?:\.\d+)? from position j
AfterFraction(t, j) ==
    IF j <= Len(t) /\ t[j] = "." /\ DigitRun(t, j + 1) >= 1
    THEN j + 1 + DigitRun(t, j + 1) ELSE j

\* \d{1,3}(?:,\d{3})*(?:\.\d+)? matched at the digit at position i: the
\* position after the match (the alternative \d+ is never reached)
MatchEnd(t, i) ==
    AfterFraction(t, AfterGroups(t, i + (IF DigitRun(t, i) >= 3 THEN 3 ELSE DigitRun(t, i))))

\* re.findall(r'\d{1,3}(?:,\d{3})*(?:\.\d+)?|\d+', t) from position i on, each
\* match with ',' and '.' removed and converted by int()
RECURSIVE NumbersFrom(_, _)
NumbersFrom(t, i) ==
    IF i > Len(t) THEN <<>>
    ELSE IF t[i] \in Digits
         THEN <<ToInt(Without(Without(SubSeq(t, i, MatchEnd(t, i) - 1), ","), "."))>>
              \o NumbersFrom(t, MatchEnd(t, i))
         ELSE NumbersFrom(t, i + 1)

\* strategy 2, the numbers found in the texts of the elements a selector
\* matched (text.replace(' ', '') first), in order
RECURSIVE AltValues(_)
AltValues(texts) ==
    IF texts = <<>> THEN <<>>
    ELSE NumbersFrom(Without(Head(texts), " "), 1) \o AltValues(Tail(texts))

\* strategy 3: filtered_numbers = [num for num in found_numbers if 0 <= num < 1000000]
FilteredNumbers(nums) == SelectSeq(nums, LAMBDA n : 0 <= n /\ n < 1000000)

\* variant of StatsFrom: two positions exchanged
StatsFromSwapped(vals) ==
    [k \in Keys |->
        CASE k = "ai_agents" -> vals[1]
          [] k = "submolts"  -> vals[3]
          [] k = "posts"     -> vals[2]
          [] k = "comments"  -> vals[4]]

\* stats = {"ai_agents": values[0], "submolts": values[1], "posts": values[2],
\*          "comments": values[3]}
StatsFrom(vals) ==
    [k \in Keys |->
        CASE k = "ai_agents" -> vals[1]
          [] k = "submolts"  -> vals[2]
          [] k = "posts"     -> vals[3]
          [] k = "comments"  -> vals[4]]

(* What the page answers *)

Text1234  == <<"1", ",", "2", "3", "4">>
Text56    == <<"5", "6">>
Text789   == <<"7", "8", "9">>
Text10    == <<"1", "0">>
TextLabel == <<"n", "/", "a">>
TextLong  == <<"1", "2", "3", "4", "5">>
TextMixed == <<"7", " ", "o", "f", " ", "1", ".", "5", "k">>

\* the element texts a selector may match, in DOM order
ElementLists ==
    { <<Text1234, Text56, Text789, Text10>>,
      <<TextLabel, Text1234, Text56, Text789, Text10>>,
      <<Text1234, Text56, Text789>>,
      <<TextLabel, Text56, Text789, Text10>>,
      <<TextLong, TextLong>>,
      <<TextMixed, Text56, Text10, TextLabel>> }

\* the found_numbers the patterns of strategy 3 may collect from page.content()
NumberLists ==
    { <<>>,
      <<1234, 56>>,
      <<1234, 56, 789, 10>>,
      <<5000000, 1234, 56, 789, 1000000, 10, 77>> }

Response(kind, texts, numbers) == [kind |-> kind, texts |-> texts, numbers |-> numbers]

\* wait_for_selector times out, or query_selector_all / inner_text raises, or
\* the selector matches elements
SelectorResponses ==
    { Response("timeout", <<>>, <<>>), Response("error", <<>>, <<>>) }
       \cup { Response("elements", l, <<>>) : l \in ElementLists }

\* page.content() raises, or the patterns collect numbers
ContentResponses ==
    { Response("error", <<>>, <<>>) }
       \cup { Response("content", <<>>, n) : n \in NumberLists }

\* the numeric values one consulted selector or strategy yields
Yield(strategy, r) ==
    IF r.kind \in {"timeout", "error"} THEN <<>>
    ELSE CASE strategy = "s1" -> PrimaryValues(r.texts)
           [] strategy = "s2" -> AltValues(r.texts)
           [] strategy = "s3" -> FilteredNumbers(r.numbers)

\* one selector of a list consulted: return at 4 values, else the next
\* selector, else the next strategy
TrySelector(strategy, selectors, after) ==
    \E r \in SelectorResponses :
       /\ eresp' = r
       /\ evals' = Yield(strategy, r)
       /\ tried' = Append(tried, selectors[esel])
       /\ IF Len(evals') >= 4
          THEN /\ estats' = StatsFrom(evals')
               /\ epc' = "done"
               /\ UNCHANGED <<esel, eshort>>
          ELSE /\ estats' = estats
               /\ eshort' = eshort + 1
               /\ IF esel < Len(selectors)
                  THEN esel' = esel + 1 /\ epc' = epc
                  ELSE esel' = 1 /\ epc' = after

\* await page.wait_for_timeout(6000), outside every try of the function
WaitDynamic ==
    /\ epc = "wait"
    /\ \E ok \in BOOLEAN : epc' = (IF ok THEN "s1" ELSE "raised")
    /\ UNCHANGED <<esel, estats, tried, eresp, evals, eshort>>
    /\ UNCHANGED <<storeVars, monitorVars, scrapeVars, ghostVars>>

\* for selector in primary_selectors
TryPrimary ==
    /\ epc = "s1"
    /\ TrySelector("s1", primary_selectors, "s2")
    /\ UNCHANGED <<storeVars, monitorVars, scrapeVars, ghostVars>>

\* for selector in alt_selectors
TryAlt ==
    /\ epc = "s2"
    /\ TrySelector("s2", alt_selectors, "s3")
    /\ UNCHANGED <<storeVars, monitorVars, scrapeVars, ghostVars>>

\* strategy 3, and the return stats that ends the function
TryPatterns ==
    /\ epc = "s3"
    /\ \E r \in ContentResponses :
          /\ eresp' = r
          /\ evals' = Yield("s3", r)
          /\ tried' = Append(tried, "page.content")
          /\ estats' = (IF Len(evals') >= 4 THEN StatsFrom(evals') ELSE estats)
          /\ eshort' = eshort + (IF Len(evals') >= 4 THEN 0 ELSE 1)
    /\ epc' = "done"
    /\ esel' = esel
    /\ UNCHANGED <<storeVars, monitorVars, scrapeVars, ghostVars>>

ExtractNext == WaitDynamic \/ TryPrimary \/ TryAlt \/ TryPatterns

\* one call of _extract_stats on a page
ExtractSpec == Init /\ [][ExtractNext]_vars

----------------------------------------------------------------------------
(* Properties *)

Last(q) == q[Len(q)]
Failed(o) == o \in {"exc", "short"}
AllFailed(q) == \A i \in 1..Len(q) : Failed(q[i])
IsZeroRecord(m) == DOMAIN m = Keys /\ \A k \in Keys : m[k] = 0

\* C1: a scrape() call performs at most 3 attempts, whatever the outcome of
\* each attempt (exception, fewer than 4 values, 4 values), and when all 3
\* attempts failed the mapping it returns has ai_agents, submolts, posts and
\* comments, all equal to 0.
C1_RetryBound ==
    /\ attempt + 1 <= max_retries
    /\ Len(outcomes) <= max_retries
    /\ (spc = "returned" /\ Len(outcomes) = max_retries /\ AllFailed(outcomes))
          => IsZeroRecord(stats)

\* three failed attempts of both kinds, and the call has returned
C1_Witness ==
    /\ spc = "returned"
    /\ outcomes = <<"exc", "short", "exc">>
    /\ IsZeroRecord(stats)

\* C2: on a store that started absent, after any sequence of save() calls that
\* returned (N of them) the CSV holds one header followed by exactly the N
\* rows of those calls, oldest first; and no step changes or removes a line
\* already in the file.
C2_AppendOnly ==
    /\ [](  (file0 = "absent" /\ inits + Len(saved) > 0)
              => file.lines = <<Header>> \o saved )
    /\ [][ /\ Len(file'.lines) >= Len(file.lines)
           /\ \A i \in 1..Len(file.lines) : file'.lines[i] = file.lines[i] ]_vars

\* three saves on a store that started absent, with different rows
C2_Witness ==
    /\ file0 = "absent"
    /\ Len(saved) = 3
    /\ saved[1] # saved[2]
    /\ Len(file.lines) = 4

FirstLineIsOnlyHeader(f) ==
    /\ Len(f.lines) > 0
    /\ IsHeader(f.lines[1])
    /\ HeaderCount(f) = 1

\* C3 as stated: from a path that is absent or zero-length, any sequence of
\* constructions (_init_csv) and save() calls leaves a file whose first line
\* is the header and which holds exactly one header line.
C3_Original ==
    (inits + Len(saved) > 0) => FirstLineIsOnlyHeader(file)

\* C3 as amended: the file never holds more than one header line and never a
\* data row before it; its first line is the header, and the only one, as
\* soon as one save() has returned or a construction has found the path
\* absent. (Constructions alone leave a zero-length file zero-length.)
C3_HeaderOnce ==
    /\ HeaderCount(file) <= 1
    /\ (Len(file.lines) > 0 => IsHeader(file.lines[1]))
    /\ (Len(saved) > 0 \/ (file0 = "absent" /\ inits > 0))
          => FirstLineIsOnlyHeader(file)

\* a zero-length file, constructions before and after the first save
C3_Witness ==
    /\ file0 = "empty"
    /\ inits >= 2
    /\ Len(saved) >= 2
    /\ Len(file.lines) = 1 + Len(saved)
    /\ FirstLineIsOnlyHeader(file)

\* C4 as stated: when scraper.run() raised in a cycle, the loop has not been
\* left, and once the except clause is over the cycle's last row is all zeros.
C4_Original ==
    cycleRaised =>
       /\ mpc # "crashed"
       /\ (mpc # "handler" =>
              cycleRows >= 1 /\ Last(file.lines) = Row(ZeroStats))

\* C4 as amended: when scraper.run() raised in a cycle and the save() of the
\* except clause returned, the cycle has appended a row of four zeros as the
\* last line of the CSV and the loop goes on (to the sleep and the next loop
\* test); the loop is left with an exception only from that save() raising.
C4_Resilience ==
    /\ (cycleRaised /\ mpc \notin {"handler", "crashed"}) =>
          /\ cycleRows >= 1
          /\ Len(file.lines) >= 2
          /\ Last(file.lines) = Row(ZeroStats)
          /\ Last(saved) = Row(ZeroStats)
          /\ mpc \in {"post", "for", "tick", "while", "stopped"}
    /\ (mpc = "crashed" => cycleRaised)

\* run() raised after its own save in cycle 1 (two rows, the second all
\* zeros), and cycle 2 is scraping
C4_Witness ==
    /\ cycles = 2
    /\ mpc = "run"
    /\ running
    /\ saved = <<Row(PageStats), Row(ZeroStats)>>

\* C5 as stated: no run_single_scrape() begins after the flag was cleared.
C5_Original == scrapesAfterStop = 0

\* C5 as amended: once the flag is cleared the loop test never passes again;
\* a run_single_scrape() begins after it only when the signal arrived between
\* the loop test and the call, and then only that one.
C5_NoFurtherCycle ==
    /\ [](scrapesAfterStop <= (IF stopPc = "start" THEN 1 ELSE 0))
    /\ [][ ~running => ~(mpc = "while" /\ mpc' = "start") ]_vars

\* the signal arrived during a sleep tick of cycle 1 and the loop was left
\* with no second scrape
C5_Witness ==
    /\ stopPc = "tick"
    /\ mpc = "stopped"
    /\ cycles = 1
    /\ scrapesAfterStop = 0

\* C6: when the flag is cleared during the inter-cycle sleep (at the head of
\* the for loop or inside asyncio.sleep(1)), at most one more tick completes,
\* no scrape begins, and control only moves on to the loop test and out.
C6_ShutdownLatency ==
    stopPc \in {"for", "tick"} =>
       /\ ticksAfterStop <= 1
       /\ scrapesAfterStop = 0
       /\ mpc \in {"for", "tick", "while", "stopped"}

\* the signal arrived after the flag test of an iteration and before its
\* sleep returned: that tick completed, with ticks to spare, and the loop was
\* left
C6_Witness ==
    /\ stopPc = "tick"
    /\ ticksAfterStop = 1
    /\ ticksLeft > 1
    /\ mpc = "stopped"

\* C7: every failed attempt that is followed by another attempt is followed
\* by a sleep of 2^attempt seconds first (1 s after the first, 2 s after the
\* second).
C7_Backoff ==
    \A i \in 1..Len(delays) : delays[i] = 2 ^ (i - 1)

\* C8: no browser session is open, and the playwright context is left, when
\* an attempt has ended: in the except clause, in the backoff sleep, when the
\* next attempt starts and when scrape() has returned.
C8_ScopedSession ==
    spc \in {"idle", "attempt", "except", "backoff", "returned", "raised"}
       => (browser # "open" /\ ~pw)

\* the first attempt raised after its browser was launched and before the
\* extraction returned: the session is down in the except clause
C8_Witness ==
    /\ spc = "except"
    /\ attempt = 0
    /\ browser = "closed"
    /\ stats = EmptyStats

\* C9: scrape() never ends by raising; when it ends it has returned one
\* mapping of the four counters.
C9_NeverRaises ==
    /\ spc # "raised"
    /\ (spc = "returned" => DOMAIN stats = Keys)

\* every attempt raised, and the call returned
C9_Witness ==
    /\ spc = "returned"
    /\ outcomes = <<"exc", "exc", "exc">>
    /\ IsZeroRecord(stats)

\* C10: the loop is left normally only with the flag cleared, and with an
\* exception only after run() raised (which no scrape failure causes); every
\* cycle that begins is followed by a row persisted in that cycle, unless the
\* save() of the except clause raises.
C10_Liveness ==
    /\ [](mpc = "stopped" => ~running)
    /\ [](mpc = "crashed" => cycleRaised)
    /\ [](spc = "returned" /\ mpc = "run" => ~cycleRaised)
    /\ ((mpc = "start") ~> (cycleRows >= 1 \/ mpc = "crashed"))

\* cycle 2 persisted its row after a scrape whose three attempts failed, the
\* flag still set
C10_Witness ==
    /\ cycles = 2
    /\ running
    /\ mpc = "print"
    /\ cycleRows = 1
    /\ Len(outcomes) = max_retries
    /\ AllFailed(outcomes)
    /\ Last(saved) = Row(ZeroStats)

\* C11: in a scrape() call, once _extract_stats has returned a mapping of at
\* least 4 values the call ends with that attempt: no except clause, no
\* backoff sleep and no later attempt follow it, and the mapping scrape()
\* returns is exactly that one.
C11_SuccessStops ==
    (mpc = "run" /\ Size(found) >= 4) =>
       /\ spc \in {"close", "check", "returned"}
       /\ (spc = "returned" => stats = found /\ Last(outcomes) = "ok")

\* C12: a monitor cycle never appends two rows, and every run_single_scrape()
\* call that has returned (the cycle is computing its sleep or sleeping) has
\* appended exactly one row.
C12_OneRowPerCycle ==
    /\ cycleRows <= 1
    /\ (mpc \in {"post", "for", "tick"} => cycleRows = 1)

\* max(1, interval - elapsed) in half seconds, for an elapsed time of d half seconds
ClaimedSleep(d) == IF 2 * interval - d >= 2 THEN 2 * interval - d ELSE 2

\* C14: after each cycle the monitor sleeps in 1-second ticks, testing the
\* flag before each tick; for every interval >= 0 and every elapsed time the
\* sleep of the cycle is max(1, interval - elapsed), the ticks slept never
\* exceed it, and a loop body that follows another begins only after at least
\* one tick (all the whole seconds of the sleep) has been slept.
C14_InterCycleSleep ==
    /\ []( (mpc \in {"for", "tick"} \/ (mpc = "while" /\ cycles >= 1)) =>
              /\ planned \in {ClaimedSleep(d) : d \in 0..MaxDurationHalves}
              /\ planned >= 2
              /\ 2 * ticksSlept <= planned
              /\ 2 * (ticksSlept + ticksLeft) <= planned )
    /\ [][ (mpc = "for" /\ mpc' = "tick") => running ]_vars
    /\ [][ (mpc = "while" /\ mpc' = "start" /\ cycles >= 1) =>
              (ticksSlept >= 1 /\ 2 * (ticksSlept + 1) > planned) ]_vars

\* a one-minute interval and a cycle that took half a second: 59 whole ticks
\* of the 59.5 s were slept and the loop test is about to pass again
C14_Witness ==
    /\ interval = 60
    /\ planned = 119
    /\ ticksSlept = 59
    /\ ticksLeft = 0
    /\ mpc = "while"
    /\ running
    /\ cycles = 1

\* the order in which _extract_stats consults the page
ConsultOrder == primary_selectors \o alt_selectors \o <<"page.content">>

\* C13: _extract_stats consults the primary selectors in list order, then the
\* secondary selectors in list order, then the page content; it returns at
\* the first of them that yields at least 4 numeric values, with the first
\* four values as ai_agents, submolts, posts, comments in that order; one is
\* consulted only when every one before it yielded fewer than 4 values, and
\* the mapping is empty when all of them did.
C13_OrderedFallback ==
    /\ tried = SubSeq(ConsultOrder, 1, Len(tried))
    /\ (epc # "done" => eshort = Len(tried) /\ estats = EmptyStats)
    /\ (epc = "done" /\ Size(estats) >= 4 =>
           /\ eshort = Len(tried) - 1
           /\ Len(evals) >= 4
           /\ estats["ai_agents"] = evals[1]
           /\ estats["submolts"] = evals[2]
           /\ estats["posts"] = evals[3]
           /\ estats["comments"] = evals[4])
    /\ (epc = "done" /\ Size(estats) < 4 =>
           /\ tried = ConsultOrder
           /\ eshort = Len(tried)
           /\ estats = EmptyStats)

\* the first primary selector timed out, the second matched four elements
\* with the texts "1,234", "56", "789", "10"
C13_Witness ==
    /\ epc = "done"
    /\ tried = SubSeq(primary_selectors, 1, 2)
    /\ eresp.texts = <<Text1234, Text56, Text789, Text10>>
    /\ eshort = 1
    /\ estats = PageStats

====
